---------------------------- MODULE Spec2Model ----------------------------
(***************************************************************************)
(* A model of the task tracker's request handlers (task_tracker/apps).     *)
(* The persistent store (users, tasks) is the only shared state; an action *)
(* is one request handled start to finish, which leaves the request and    *)
(* its response in resp, or, where requests overlap, one step (the read or *)
(* the write) of a request in flight.                                      *)
(*                                                                         *)
(* Text (descriptions, usernames, e-mail addresses, passwords) is a        *)
(* sequence of one-character strings, so that trimming, case folding and   *)
(* matching are computed and not assumed.                                  *)
(***************************************************************************)
EXTENDS Integers, Sequences, FiniteSets, TLC

VARIABLES users, tasks, lastUserId, lastTaskId, now, resp, timeZone, inflight

vars == <<users, tasks, lastUserId, lastTaskId, now, resp, timeZone, inflight>>

store == <<users, tasks, lastUserId, lastTaskId, now>>

\* What a request served start to finish leaves alone: the configured time
\* zone and the requests in flight.
aside == <<timeZone, inflight>>

(***************************************************************************)
(* Bounds of the model.                                                    *)
(***************************************************************************)
\* Primary keys handed out to users (two are seeded, the rest register).
MaxUsers == 3

\* Primary keys handed out to tasks (one is seeded, the rest are created).
MaxTasks == 2

\* Last clock value: every committed write takes one tick of the clock.
MaxClock == 2

\* Instants are counted in ticks of the clock, the resolution timestamps
\* are stored at; this many ticks make a calendar day.
TicksPerDay == 4

\* Requests that are being served at the same time.
MaxRequests == 2

UserIds == 1..MaxUsers

TaskIds == 1..MaxTasks

(***************************************************************************)
(* Text helpers.                                                           *)
(***************************************************************************)
UpperChars == <<"A", "B", "C", "U", "Y">>

LowerChars == <<"a", "b", "c", "u", "y">>

\* str.lower() on one character.
LowerChar(c) ==
    IF \E k \in 1..Len(UpperChars) : UpperChars[k] = c
    THEN LowerChars[CHOOSE k \in 1..Len(UpperChars) : UpperChars[k] = c]
    ELSE c

\* Case folding used by the i* lookups.
Lower(s) == [k \in 1..Len(s) |-> LowerChar(s[k])]

RECURSIVE LStrip(_)
LStrip(s) == IF s # <<>> /\ Head(s) = " " THEN LStrip(Tail(s)) ELSE s

RECURSIVE RStrip(_)
RStrip(s) ==
    IF s # <<>> /\ s[Len(s)] = " " THEN RStrip(SubSeq(s, 1, Len(s) - 1)) ELSE s

\* CharField(trim_whitespace=True): str.strip() on the supplied value.
Strip(s) == RStrip(LStrip(s))

\* s starts with prefix t
StartsWith(s, t) == Len(t) <= Len(s) /\ SubSeq(s, 1, Len(t)) = t

\* t occurs in s
Contains(s, t) ==
    \E k \in 0..(Len(s) - Len(t)) : SubSeq(s, k + 1, k + Len(t)) = t

\* The payload with no keys.
EmptyPayload == [k \in {} |-> 0]

Has(d, k) == k \in DOMAIN d

(***************************************************************************)
(* The store.  users and tasks are the two tables, keyed by primary key;   *)
(* a primary key is in the DOMAIN exactly while its row exists.            *)
(***************************************************************************)
\* A row of the task table.
TaskRow(u, desc, done, created, updated) ==
    [user |-> u, description |-> desc, completed |-> done,
     creation_time |-> created, updated_at |-> updated]

\* A row of auth_user, restricted to the columns the handlers read or write.
UserRow(name, mail, first, last, pw, staff, super, active) ==
    [username |-> name, email |-> mail, first_name |-> first,
     last_name |-> last, password |-> pw, is_staff |-> staff,
     is_superuser |-> super, is_active |-> active]

\* A delete that leaves the row where it is.
Without_KeepsRow(table, pk) == table

\* QuerySet.delete() of one row.
Without(table, pk) == [k \in (DOMAIN table) \ {pk} |-> table[k]]

\* on_delete=models.CASCADE: the rows of the task table that survive the
\* deletion of user u.
\* A delete that leaves the tasks of the user where they are.
CascadeDelete_SetNull(table, u) == table

CascadeDelete(table, u) ==
    [k \in {i \in DOMAIN table : table[i].user # u} |-> table[k]]

\* The authenticated principals: request.user is a row of the user table.
Principals == DOMAIN users

\* The request, the response it got and the lines the handler logged.
Response(op, p, pk, d, st, b, lines) ==
    [op |-> op, user |-> p, pk |-> pk, data |-> d, status |-> st, body |-> b,
     log |-> lines]

\* A logger call: who did what to which object, with the values the line
\* interpolates.
Line(actor, action, object, values) ==
    [actor |-> actor, action |-> action, object |-> object, values |-> values]

NoLog == <<>>

\* Http404 raised by get_object_or_404.
NotFound == [detail |-> "Not found."]

\* PermissionDenied raised by check_object_permissions.
Forbidden == [detail |-> "You do not have permission to perform this action."]

ErrorBody(st) == IF st = 404 THEN NotFound ELSE Forbidden

(***************************************************************************)
(* permissions.py                                                          *)
(***************************************************************************)
\* IsOwner.has_object_permission on a task: obj.user == request.user.
IsOwner(p, row) == row.user = p

\* IsOwner.has_object_permission on a user (no attribute `user`):
\* obj == request.user.
IsOwnerOfProfile(p, u) == u = p

\* A permission that tests is_superuser where the code tests is_staff.
IsOwnerOrStaff_Superuser(p, u) ==
    IF users[p].is_superuser THEN TRUE ELSE IsOwnerOfProfile(p, u)

\* IsOwnerOrStaff.has_object_permission on a user.
IsOwnerOrStaff(p, u) ==
    IF users[p].is_staff THEN TRUE ELSE IsOwnerOfProfile(p, u)

(***************************************************************************)
(* tasks/serializers.py                                                    *)
(***************************************************************************)
\* Length after which Task.__str__ cuts the description.
StrLimit == 50

\* Task.__str__: the first 50 characters, and "..." when there are more.
TaskStr(row) ==
    IF Len(row.description) > StrLimit
    THEN SubSeq(row.description, 1, StrLimit) \o <<".", ".", ".">>
    ELSE row.description

\* ListTasksSerializer: id, shortened description, completed, creation_time.
ListRepr(table, i) ==
    [id |-> i, description |-> TaskStr(table[i]),
     completed |-> table[i].completed,
     creation_time |-> table[i].creation_time]

\* TaskSerializer: id, description, completed, creation_time, updated_at.
TaskRepr(table, i) ==
    [id |-> i, description |-> table[i].description,
     completed |-> table[i].completed,
     creation_time |-> table[i].creation_time,
     updated_at |-> table[i].updated_at]

\* A description field with allow_blank=True.
TaskSerializerErrors_AllowBlank(d, partial) ==
    IF ~Has(d, "description") /\ ~partial THEN {"description"} ELSE {}

\* TaskSerializer.is_valid: the fields in error.  description is the only
\* writable field: required unless the update is partial, trimmed, and
\* not blank.  completed, creation_time, updated_at are read-only and any
\* other key (user, id) is no field of the serializer: none is validated.
TaskSerializerErrors(d, partial) ==
    IF ~Has(d, "description")
    THEN IF partial THEN {} ELSE {"description"}
    ELSE IF Strip(d.description) = <<>> THEN {"description"} ELSE {}

\* A serializer whose read_only_fields does not list `completed`.
WritableTaskFields_WithCompleted == {"description", "completed"}

\* Meta.fields of TaskSerializer without Meta.read_only_fields (and without
\* id, which is read-only as the primary key).
WritableTaskFields == {"description"}

\* A serializer that takes every column of the model from the payload.
TaskValidatedData_AllFields(d) ==
    [k \in (DOMAIN d) \cap {"user", "description", "completed",
                             "creation_time"} |->
        IF k = "description" THEN Strip(d[k]) ELSE d[k]]

\* TaskSerializer.validated_data: the writable fields the payload supplies.
TaskValidatedData(d) ==
    [k \in (DOMAIN d) \cap WritableTaskFields |->
        IF k = "description" THEN Strip(d[k]) ELSE d[k]]

(***************************************************************************)
(* tasks/views.py                                                          *)
(***************************************************************************)
\* A queryset that shows a staff member every task.
TaskQueryset_StaffSeesAll(p) ==
    IF users[p].is_staff
    THEN DOMAIN tasks
    ELSE {i \in DOMAIN tasks : tasks[i].user = p}

\* get_queryset of every task view: Task.objects.filter(user=request.user).
TaskQueryset(p) == {i \in DOMAIN tasks : tasks[i].user = p}

\* GenericAPIView.get_object: 404 when the queryset has no row with that
\* pk, then the object-level permission (IsOwner).
\* A lookup in all tasks, with the owner checked on the object found.
TaskObjectStatus_Forbids(p, i) ==
    IF i \notin DOMAIN tasks THEN 404
    ELSE IF ~IsOwner(p, tasks[i]) THEN 403
    ELSE 200

TaskObjectStatus(p, i) ==
    IF i \notin TaskQueryset(p) THEN 404
    ELSE IF ~IsOwner(p, tasks[i]) THEN 403
    ELSE 200

\* The clock value a write commits at.
CommitTime == now + 1

\* A write is taken only while the clock has a tick left.
CanCommit == now < MaxClock

\* "completed" / "incomplete" as the toggle view logs it.
StatusName(done) == IF done THEN "completed" ELSE "incomplete"

\* TaskDetailView.retrieve: logs only when the task was found.
TaskDetail(p, i) ==
    LET st == TaskObjectStatus(p, i) IN
    /\ resp' = IF st = 200
               THEN Response("detail", p, i, EmptyPayload, 200,
                             TaskRepr(tasks, i),
                             <<Line(p, "retrieved task", i, <<>>)>>)
               ELSE Response("detail", p, i, EmptyPayload, st, ErrorBody(st),
                             NoLog)
    /\ UNCHANGED store

\* serializer.save(user=user) on create: Task(**validated_data, user=user)
\* and Task.save().  completed has the model default unless it is given,
\* auto_now_add and auto_now stamp both timestamps.
NewTask(p, data) ==
    TaskRow(p, data.description,
            IF Has(data, "completed") THEN data.completed ELSE FALSE,
            CommitTime, CommitTime)

\* TaskCreateView.create / perform_create
TaskCreate(p, d) ==
    LET errs == TaskSerializerErrors(d, FALSE)
        id == lastTaskId + 1 IN
    IF errs # {}
    THEN /\ resp' = Response("create", p, 0, d, 400, errs, NoLog)
         /\ UNCHANGED store
    ELSE /\ CanCommit
         /\ id <= MaxTasks
         /\ tasks' = tasks @@ (id :> NewTask(p, TaskValidatedData(d)))
         /\ lastTaskId' = id
         /\ now' = CommitTime
         /\ resp' = Response("create", p, 0, d, 201, TaskRepr(tasks', id),
                             <<Line(p, "created task", id,
                                    <<tasks'[id].description>>)>>)
         /\ UNCHANGED <<users, lastUserId>>

\* What the database raises for a row that breaks a constraint.
IntegrityError == [error |-> "IntegrityError"]

\* Task.objects.create(user=u, ...) outside a request (TaskFactory in the
\* tests and in seed_data): the foreign key column is NOT NULL and
\* references a user, so a row without an owner (u = 0) or with an owner
\* that is not stored raises IntegrityError and nothing is written.
TaskInsert(u, desc) ==
    LET id == lastTaskId + 1 IN
    IF u \notin DOMAIN users
    THEN /\ resp' = Response("insert", 0, 0, [user |-> u], 0,
                             IntegrityError, NoLog)
         /\ UNCHANGED store
    ELSE /\ CanCommit
         /\ id <= MaxTasks
         /\ tasks' = tasks @@ (id :> TaskRow(u, desc, FALSE,
                                             CommitTime, CommitTime))
         /\ lastTaskId' = id
         /\ now' = CommitTime
         /\ resp' = Response("insert", 0, id, [user |-> u], 0,
                             TaskRepr(tasks', id), NoLog)
         /\ UNCHANGED <<users, lastUserId>>

\* An update that replaces the row: what the payload leaves out goes back
\* to the default.
UpdatedTask_ResetsCompleted(row, data) ==
    [k \in DOMAIN row |->
        IF k = "updated_at" THEN CommitTime
        ELSE IF k \in DOMAIN data THEN data[k]
        ELSE IF k = "completed" THEN FALSE
        ELSE row[k]]

\* ModelSerializer.update followed by Task.save(): every validated field
\* is set on the instance, every column is written back, and auto_now
\* restamps updated_at.
UpdatedTask(row, data) ==
    [k \in DOMAIN row |->
        IF k = "updated_at" THEN CommitTime
        ELSE IF k \in DOMAIN data THEN data[k]
        ELSE row[k]]

\* TaskUpdateDescriptionView.update (PATCH, partial=True): logs only when
\* the payload has the key `description`.
TaskUpdateDescription(p, i, d) ==
    LET st == TaskObjectStatus(p, i)
        errs == TaskSerializerErrors(d, TRUE) IN
    IF st # 200
    THEN /\ resp' = Response("update_description", p, i, d, st, ErrorBody(st),
                             NoLog)
         /\ UNCHANGED store
    ELSE IF errs # {}
    THEN /\ resp' = Response("update_description", p, i, d, 400, errs, NoLog)
         /\ UNCHANGED store
    ELSE /\ CanCommit
         /\ tasks' = [tasks EXCEPT ![i] = UpdatedTask(@, TaskValidatedData(d))]
         /\ now' = CommitTime
         /\ resp' = Response("update_description", p, i, d, 200,
                             TaskRepr(tasks', i),
                             IF Has(d, "description")
                             THEN <<Line(p, "updated task description", i,
                                         <<tasks[i].description,
                                           d.description>>)>>
                             ELSE NoLog)
         /\ UNCHANGED <<users, lastUserId, lastTaskId>>

\* A "toggle" that only ever marks the task done.
ToggledTask_MarksDone(row) ==
    [row EXCEPT !.completed = TRUE, !.updated_at = CommitTime]

\* Task.toggle_completion: self.completed = not self.completed; self.save()
ToggledTask(row) ==
    [row EXCEPT !.completed = ~@, !.updated_at = CommitTime]

\* TaskToggleCompletionView.update: logs the status before and after.
TaskToggleCompletion(p, i) ==
    LET st == TaskObjectStatus(p, i) IN
    IF st # 200
    THEN /\ resp' = Response("toggle", p, i, EmptyPayload, st, ErrorBody(st),
                             NoLog)
         /\ UNCHANGED store
    ELSE /\ CanCommit
         /\ tasks' = [tasks EXCEPT ![i] = ToggledTask(@)]
         /\ now' = CommitTime
         /\ resp' = Response("toggle", p, i, EmptyPayload, 200,
                             TaskRepr(tasks', i),
                             <<Line(p, "toggled task", i,
                                    <<StatusName(tasks[i].completed),
                                      StatusName(tasks'[i].completed)>>)>>)
         /\ UNCHANGED <<users, lastUserId, lastTaskId>>

\* TaskDeleteView.destroy: logs once the task is found, then deletes it.
TaskDelete(p, i) ==
    LET st == TaskObjectStatus(p, i) IN
    IF st # 200
    THEN /\ resp' = Response("delete", p, i, EmptyPayload, st, ErrorBody(st),
                             NoLog)
         /\ UNCHANGED store
    ELSE /\ CanCommit
         /\ tasks' = Without(tasks, i)
         /\ now' = CommitTime
         /\ resp' = Response("delete", p, i, EmptyPayload, 204, EmptyPayload,
                             <<Line(p, "deleted task", i,
                                    <<tasks[i].description>>)>>)
         /\ UNCHANGED <<users, lastUserId, lastTaskId>>

(***************************************************************************)
(* tasks/filters.py and the list endpoint                                  *)
(***************************************************************************)
\* Meta.fields of TaskFilter.
TaskFilterFields ==
    {"description", "description__contains", "description__startswith",
     "description__regex", "created_after", "created_before", "created_on",
     "completed"}

\* The three filters declared with DateFilter.
DateFilterFields == {"created_after", "created_before", "created_on"}

\* lookup_expr iregex: the pattern is searched for anywhere in the text.
\* Patterns are made of literal characters, ".", "*" after a character or
\* ".", "^" in front and "$" at the end.
RECURSIVE RegexMatchHere(_, _)
RegexMatchHere(re, text) ==
    IF re = <<>> THEN TRUE
    ELSE IF Len(re) >= 2 /\ re[2] = "*"
    THEN \E k \in 0..Len(text) :
             /\ \A j \in 1..k : re[1] = "." \/ re[1] = text[j]
             /\ RegexMatchHere(SubSeq(re, 3, Len(re)),
                               SubSeq(text, k + 1, Len(text)))
    ELSE IF re = <<"$">> THEN text = <<>>
    ELSE /\ text # <<>>
         /\ re[1] = "." \/ re[1] = text[1]
         /\ RegexMatchHere(Tail(re), Tail(text))

RegexSearch(re, text) ==
    IF re # <<>> /\ re[1] = "^"
    THEN RegexMatchHere(Tail(re), text)
    ELSE \E k \in 0..Len(text) :
             RegexMatchHere(re, SubSeq(text, k + 1, Len(text)))

\* The decimal digits in order, and the value of one.
DecimalDigits == <<"0", "1", "2", "3", "4", "5", "6", "7", "8", "9">>

IsDecimalDigit(c) == \E n \in 0..9 : DecimalDigits[n + 1] = c

DigitValue(c) == CHOOSE n \in 0..9 : DecimalDigits[n + 1] = c

\* The month the calendar of the model covers: the clock reads 0 at
\* 2024-01-01 00:00 UTC.
MonthPrefix == <<"2", "0", "2", "4", "-", "0", "1", "-">>

\* forms.DateField on a "YYYY-MM-DD" string of that month: the number of
\* the day, counted from 0, or no date at all.
ParseDate(s) ==
    IF /\ Len(s) = 10
       /\ SubSeq(s, 1, 8) = MonthPrefix
       /\ IsDecimalDigit(s[9])
       /\ IsDecimalDigit(s[10])
       /\ 10 * DigitValue(s[9]) + DigitValue(s[10]) \in 1..31
    THEN [valid |-> TRUE,
          day |-> 10 * DigitValue(s[9]) + DigitValue(s[10]) - 1]
    ELSE [valid |-> FALSE, day |-> 0]

\* A local time taken for a UTC time as it stands.
MakeAware_Naive(local) == local

\* A local time, as a UTC offset in ticks, read in the time zone that is
\* current (make_aware).
MakeAware(local) == local - timeZone

\* The transform creation_time__date: the calendar date of an instant in
\* the current time zone.
LocalDate_Utc(t) == t \div TicksPerDay

LocalDate(t) == (t + timeZone) \div TicksPerDay

\* DateFilter._get_day_range: the start of the day (time.min) and its end
\* (time.max, the last instant a timestamp can hold), both made aware in
\* the current time zone.
DayRange_Utc(d) == <<d * TicksPerDay, d * TicksPerDay + (TicksPerDay - 1)>>

DayRange(d) ==
    <<MakeAware(d * TicksPerDay),
      MakeAware(d * TicksPerDay + (TicksPerDay - 1))>>

\* One filter of TaskFilter applied to one row: the lookups iexact,
\* icontains, istartswith and iregex on description, equality on
\* completed, gte and lte on the creation date, and filter_created_on
\* (creation_time__range, both ends included).
PassesTaskFilter(row, k, v) ==
    CASE k = "description" -> Lower(row.description) = Lower(v)
      [] k = "description__contains" ->
             Contains(Lower(row.description), Lower(v))
      [] k = "description__startswith" ->
             StartsWith(Lower(row.description), Lower(v))
      [] k = "description__regex" ->
             RegexSearch(Lower(v), Lower(row.description))
      [] k = "completed" -> row.completed = v
      [] k = "created_after" ->
             LocalDate(row.creation_time) >= ParseDate(v).day
      [] k = "created_before" ->
             LocalDate(row.creation_time) <= ParseDate(v).day
      [] k = "created_on" ->
             /\ DayRange(ParseDate(v).day)[1] <= row.creation_time
             /\ row.creation_time <= DayRange(ParseDate(v).day)[2]

\* A filter set that keeps the rows that pass any one of its filters.
MatchesTaskFilter_AnyOf(row, q) ==
    \/ (DOMAIN q) \cap TaskFilterFields = {}
    \/ \E k \in (DOMAIN q) \cap TaskFilterFields :
           PassesTaskFilter(row, k, q[k])

\* FilterSet.filter_queryset: the queryset goes through every filter the
\* query supplies, one after the other.
MatchesTaskFilter(row, q) ==
    \A k \in (DOMAIN q) \cap TaskFilterFields : PassesTaskFilter(row, k, q[k])

\* FilterSet.is_valid: the date filters whose value is no date.
TaskFilterErrors(q) ==
    {k \in (DOMAIN q) \cap DateFilterFields : ~ParseDate(q[k]).valid}

\* A filter that runs over the whole task table.
FilteredTasks_Unscoped(p, q) ==
    {i \in DOMAIN tasks : MatchesTaskFilter(tasks[i], q)}

\* TaskFilter.filter_queryset over the view's queryset.
FilteredTasks(p, q) == {i \in TaskQueryset(p) : MatchesTaskFilter(tasks[i], q)}

\* TaskListView.ordering, the order used when the query names none.
\* The ordering of the model's Meta alone.
DefaultOrdering_ModelMeta == <<"-creation_time">>

DefaultOrdering == <<"completed", "-creation_time", "-updated_at">>

\* TaskListView.ordering_fields: OrderingFilter drops any other term and
\* falls back on the view's ordering when none is left.
OrderingOf(q) ==
    IF Has(q, "ordering")
       /\ q.ordering \in {"creation_time", "-creation_time",
                          "updated_at", "-updated_at"}
    THEN <<q.ordering>>
    ELSE DefaultOrdering

\* The value ORDER BY compares for one term; a leading "-" is descending.
OrderKey(row, term) ==
    CASE term = "completed"      -> IF row.completed THEN 1 ELSE 0
      [] term = "creation_time"  -> row.creation_time
      [] term = "-creation_time" -> 0 - row.creation_time
      [] term = "updated_at"     -> row.updated_at
      [] term = "-updated_at"    -> 0 - row.updated_at

\* Row a may precede row b under ORDER BY terms.
RECURSIVE MayPrecede(_, _, _)
MayPrecede(a, b, terms) ==
    \/ terms = <<>>
    \/ OrderKey(a, Head(terms)) < OrderKey(b, Head(terms))
    \/ /\ OrderKey(a, Head(terms)) = OrderKey(b, Head(terms))
       /\ MayPrecede(a, b, Tail(terms))

\* The orders the database may return the rows S in: the rows that tie
\* on every term come in any order.
OrderedResults(S, terms) ==
    {s \in [1..Cardinality(S) -> S] :
        /\ \A j, k \in 1..Cardinality(S) : j # k => s[j] # s[k]
        /\ \A k \in 1..(Cardinality(S) - 1) :
               MayPrecede(tasks[s[k]], tasks[s[k + 1]], terms)}

\* The lines of TaskListView.list and TaskFilter.__init__ for a query
\* string, and with them the line of TaskFilter.filter_queryset.
TaskListLogged(p, q) ==
    <<Line(p, "listed tasks", 0, <<DOMAIN q>>)>>
    \o (IF (DOMAIN q) \cap TaskFilterFields # {}
        THEN <<Line(p, "applied filters", 0,
                    <<(DOMAIN q) \cap TaskFilterFields>>)>>
        ELSE <<>>)

TaskListLog(p, q) ==
    TaskListLogged(p, q)
    \o (IF DOMAIN q # {}
        THEN <<Line(p, "filter results", 0,
                    <<Cardinality(FilteredTasks(p, q)),
                      Cardinality(TaskQueryset(p))>>)>>
        ELSE <<>>)

\* TaskListView.list: 400 naming the date filters that hold no date;
\* otherwise the filtered, ordered rows of the principal, each through
\* ListTasksSerializer (the pages of the envelope, concatenated).
TaskList(p, q) ==
    IF TaskFilterErrors(q) # {}
    THEN /\ resp' = Response("list", p, 0, q, 400, TaskFilterErrors(q),
                             TaskListLogged(p, q))
         /\ UNCHANGED store
    ELSE \E s \in OrderedResults(FilteredTasks(p, q), OrderingOf(q)) :
             /\ resp' = Response("list", p, 0, q, 200,
                                 [k \in 1..Len(s) |-> ListRepr(tasks, s[k])],
                                 TaskListLog(p, q))
             /\ UNCHANGED store

(***************************************************************************)
(* users/serializers.py                                                    *)
(***************************************************************************)
\* make_password: what set_password stores for a raw password.
Hash(raw) == <<"pbkdf2_sha256$">> \o raw

\* check_password: the stored credential is the hash of the raw password.
CheckPassword(raw, stored) == stored = Hash(raw)

Digits == {"0", "1", "2", "3", "4", "5", "6", "7", "8", "9"}

\* MinimumLengthValidator's min_length.
MinPasswordLength == 8

\* CommonPasswordValidator's list, as far as the payloads below reach it.
CommonPasswords == {<<"p", "a", "s", "s", "w", "o", "r", "d">>}

\* validate_password(value) as PasswordSerializer calls it, with no user:
\* too short, entirely numeric, or common.
ValidatePassword(raw) ==
    /\ Len(raw) >= MinPasswordLength
    /\ \E k \in 1..Len(raw) : raw[k] \notin Digits
    /\ raw \notin CommonPasswords

\* EmailField: blank is allowed (User.email has blank=True), anything else
\* needs a local part, an "@" and a domain.
ValidateEmail(mail) ==
    \/ mail = <<>>
    \/ \E k \in 2..(Len(mail) - 1) :
           /\ mail[k] = "@"
           /\ \A j \in 1..Len(mail) : mail[j] = "@" => j = k

\* PasswordSerializer.password: required unless the update is partial,
\* trimmed, not blank, and accepted by validate_password.
PasswordFieldErrors(d, partial) ==
    IF ~Has(d, "password")
    THEN IF partial THEN {} ELSE {"password"}
    ELSE IF ValidatePassword(Strip(d.password)) THEN {} ELSE {"password"}

\* The e-mail field of both user serializers: optional.
EmailFieldErrors(d) ==
    IF Has(d, "email") /\ ~ValidateEmail(Strip(d.email)) THEN {"email"} ELSE {}

\* UserUpdateSerializer.is_valid: the fields in error.  Meta.fields is
\* email, first_name, last_name, password; any other key of the payload
\* (username, is_staff, is_superuser, is_active) is no field of the
\* serializer.
UserUpdateErrors(d, partial) ==
    EmailFieldErrors(d) \cup PasswordFieldErrors(d, partial)

\* The optional text fields the payload supplies, trimmed.
SuppliedOr(d, k, old) == IF Has(d, k) THEN Strip(d[k]) ELSE old

\* An update serializer that lists the role flags among its fields.
UserUpdated_WritesRoleFlags(row, d) ==
    [row EXCEPT !.email = SuppliedOr(d, "email", @),
                !.first_name = SuppliedOr(d, "first_name", @),
                !.last_name = SuppliedOr(d, "last_name", @),
                !.password = IF Has(d, "password")
                             THEN Hash(Strip(d.password)) ELSE @,
                !.is_staff = IF Has(d, "is_staff") THEN d.is_staff ELSE @,
                !.is_superuser = IF Has(d, "is_superuser")
                                 THEN d.is_superuser ELSE @]

\* An update serializer that lists username and is_active among its fields.
UserUpdated_WritesIdentity(row, d) ==
    [row EXCEPT !.email = SuppliedOr(d, "email", @),
                !.first_name = SuppliedOr(d, "first_name", @),
                !.last_name = SuppliedOr(d, "last_name", @),
                !.password = IF Has(d, "password")
                             THEN Hash(Strip(d.password)) ELSE @,
                !.username = SuppliedOr(d, "username", @),
                !.is_active = IF Has(d, "is_active") THEN d.is_active ELSE @]

\* UserUpdateSerializer.update: the validated fields are set on the
\* instance, the password goes through set_password, then save().
UserUpdated(row, d) ==
    [row EXCEPT !.email = SuppliedOr(d, "email", @),
                !.first_name = SuppliedOr(d, "first_name", @),
                !.last_name = SuppliedOr(d, "last_name", @),
                !.password = IF Has(d, "password")
                             THEN Hash(Strip(d.password)) ELSE @]

\* UserUpdateSerializer.data: the password is write-only.
UserUpdateRepr(row) ==
    [email |-> row.email, first_name |-> row.first_name,
     last_name |-> row.last_name]

\* UserSerializer: id, username, email, first_name, last_name.
UserRepr(table, u) ==
    [id |-> u, username |-> table[u].username, email |-> table[u].email,
     first_name |-> table[u].first_name, last_name |-> table[u].last_name]

\* UserCreateSerializer.is_valid: username is required, not blank and
\* unique; email is optional; password as in PasswordSerializer.
\* A validation that stops at the first field in error.
UserCreateErrors_FirstOnly(d) ==
    IF ~Has(d, "username") \/ Strip(d.username) = <<>>
       \/ \E u \in DOMAIN users : users[u].username = Strip(d.username)
    THEN {"username"}
    ELSE IF EmailFieldErrors(d) # {} THEN {"email"}
    ELSE PasswordFieldErrors(d, FALSE)

UserCreateErrors(d) ==
    (IF ~Has(d, "username") \/ Strip(d.username) = <<>>
        \/ \E u \in DOMAIN users : users[u].username = Strip(d.username)
     THEN {"username"} ELSE {})
    \cup EmailFieldErrors(d) \cup PasswordFieldErrors(d, FALSE)

\* A create that takes the role flags from the payload as well.
UserCreated_WithRoleFlags(d) ==
    UserRow(Strip(d.username), SuppliedOr(d, "email", <<>>),
            SuppliedOr(d, "first_name", <<>>), SuppliedOr(d, "last_name", <<>>),
            Strip(d.password),
            IF Has(d, "is_staff") THEN d.is_staff ELSE FALSE,
            IF Has(d, "is_superuser") THEN d.is_superuser ELSE FALSE,
            IF Has(d, "is_active") THEN d.is_active ELSE TRUE)

\* ModelSerializer.create: User.objects.create(**validated_data).  The
\* validated fields are stored as given (the password too); is_active
\* defaults to True, is_staff and is_superuser are the model's defaults.
UserCreated(d) ==
    UserRow(Strip(d.username), SuppliedOr(d, "email", <<>>),
            SuppliedOr(d, "first_name", <<>>), SuppliedOr(d, "last_name", <<>>),
            Strip(d.password), FALSE, FALSE,
            IF Has(d, "is_active") THEN d.is_active ELSE TRUE)

\* UserCreateSerializer.data: the password is write-only.
UserCreateRepr(row) ==
    [username |-> row.username, email |-> row.email,
     first_name |-> row.first_name, last_name |-> row.last_name,
     is_active |-> row.is_active]

(***************************************************************************)
(* users/views.py and users/filters.py                                     *)
(***************************************************************************)
\* The principal of a request that carries no credentials.
Anonymous == 0

\* UserRegistrationViewSet.create / perform_create (AllowAny)
Register(d) ==
    LET errs == UserCreateErrors(d)
        id == lastUserId + 1 IN
    IF errs # {}
    THEN /\ resp' = Response("register", Anonymous, 0, d, 400, errs, NoLog)
         /\ UNCHANGED store
    ELSE /\ CanCommit
         /\ id <= MaxUsers
         /\ users' = users @@ (id :> UserCreated(d))
         /\ lastUserId' = id
         /\ now' = CommitTime
         /\ resp' = Response("register", Anonymous, id, d, 201,
                             UserCreateRepr(users'[id]),
                             <<Line(Anonymous, "user created", id,
                                    <<users'[id].username>>)>>)
         /\ UNCHANGED <<tasks, lastTaskId>>

\* The answer to credentials that authenticate no active account.
NoActiveAccount ==
    [detail |-> "No active account found with the given credentials"]

\* The token endpoint: the credentials authenticate the active user of
\* that name whose stored credential is the hash of the password, and
\* the answer holds an access and a refresh token for that user; any
\* other credentials are answered with 401.
TokenObtain(d) ==
    LET found == {u \in DOMAIN users :
                     /\ users[u].username = d.username
                     /\ CheckPassword(d.password, users[u].password)
                     /\ users[u].is_active} IN
    /\ resp' = IF found # {}
               THEN Response("token", Anonymous, 0, d, 200,
                             [access |-> CHOOSE u \in found : TRUE,
                              refresh |-> CHOOSE u \in found : TRUE], NoLog)
               ELSE Response("token", Anonymous, 0, d, 401,
                             NoActiveAccount, NoLog)
    /\ UNCHANGED store

\* The check UserProfileViewSet.retrieve makes before any lookup.
ProfileForbidden == [detail |-> "You do not have permission to access this profile."]

\* UserProfileViewSet.get_object: 404 when no user has that pk, then the
\* object-level permission (IsOwnerOrStaff).
\* A check of the principal before any lookup, as retrieve does it.
ProfileObjectStatus_CheckFirst(p, u) ==
    IF ~users[p].is_staff /\ p # u THEN 403
    ELSE IF u \notin DOMAIN users THEN 404
    ELSE 200

ProfileObjectStatus(p, u) ==
    IF u \notin DOMAIN users THEN 404
    ELSE IF ~IsOwnerOrStaff(p, u) THEN 403
    ELSE 200

\* UserProfileViewSet.retrieve: a warning and 403 before any lookup for a
\* principal who is neither staff nor the user asked for; otherwise the
\* line is logged and then the object is looked up.
ProfileRetrieve(p, u) ==
    LET st == ProfileObjectStatus(p, u) IN
    /\ resp' = IF ~users[p].is_staff /\ p # u
               THEN Response("profile_retrieve", p, u, EmptyPayload, 403,
                             ProfileForbidden,
                             <<Line(p, "attempted to access profile", u,
                                    <<>>)>>)
               ELSE Response("profile_retrieve", p, u, EmptyPayload, st,
                             IF st = 200 THEN UserRepr(users, u)
                             ELSE ErrorBody(st),
                             <<Line(p, "retrieved profile", u, <<>>)>>)
    /\ UNCHANGED store

\* UserProfileViewSet.update (PUT, partial = FALSE) and partial_update
\* (PATCH, partial = TRUE): both log after the update went through.  The
\* partial_update of the mixin calls self.update, which is the update of
\* the viewset, so a PATCH logs the line of update and then its own.
ProfileUpdate(p, u, d, partial) ==
    LET op == IF partial THEN "profile_partial_update" ELSE "profile_update"
        st == ProfileObjectStatus(p, u)
        errs == UserUpdateErrors(d, partial) IN
    IF st # 200
    THEN /\ resp' = Response(op, p, u, d, st, ErrorBody(st), NoLog)
         /\ UNCHANGED store
    ELSE IF errs # {}
    THEN /\ resp' = Response(op, p, u, d, 400, errs, NoLog)
         /\ UNCHANGED store
    ELSE /\ CanCommit
         /\ users' = [users EXCEPT ![u] = UserUpdated(@, d)]
         /\ now' = CommitTime
         /\ resp' = Response(op, p, u, d, 200, UserUpdateRepr(users'[u]),
                             <<Line(p, "performed full update on profile",
                                    u, <<>>)>>
                             \o (IF partial
                                 THEN <<Line(p, "partially updated profile",
                                             u, <<DOMAIN d>>)>>
                                 ELSE <<>>))
         /\ UNCHANGED <<tasks, lastUserId, lastTaskId>>

\* UserProfileViewSet.destroy: logs once the user is found; the user row
\* goes, and with it (CASCADE) every task the user owns.
ProfileDestroy(p, u) ==
    LET st == ProfileObjectStatus(p, u) IN
    IF st # 200
    THEN /\ resp' = Response("profile_destroy", p, u, EmptyPayload, st,
                             ErrorBody(st), NoLog)
         /\ UNCHANGED store
    ELSE /\ CanCommit
         /\ users' = Without(users, u)
         /\ tasks' = CascadeDelete(tasks, u)
         /\ now' = CommitTime
         /\ resp' = Response("profile_destroy", p, u, EmptyPayload, 204,
                             EmptyPayload,
                             <<Line(p, "deleted profile", u,
                                    <<users[u].username>>)>>)
         /\ UNCHANGED <<lastUserId, lastTaskId>>

\* A queryset that shows every user to every principal.
UserQueryset_Everyone(p) == DOMAIN users

\* A queryset that widens for staff only.
UserQueryset_StaffOnly(p) ==
    IF users[p].is_staff
    THEN DOMAIN users
    ELSE {u \in DOMAIN users : u = p}

\* UserListViewSet.get_queryset: every user for a staff member or a
\* superuser, the principal alone for anyone else.
UserQueryset(p) ==
    IF users[p].is_staff \/ users[p].is_superuser
    THEN DOMAIN users
    ELSE {u \in DOMAIN users : u = p}

\* UserFilter: username and email, both icontains.
MatchesUserFilter(row, q) ==
    /\ Has(q, "username") =>
           Contains(Lower(row.username), Lower(q.username))
    /\ Has(q, "email") => Contains(Lower(row.email), Lower(q.email))

\* The users a list request returns.
FilteredUsers(p, q) ==
    {u \in UserQueryset(p) : MatchesUserFilter(users[u], q)}

\* Meta.fields of UserFilter.
UserFilterFields == {"username", "email"}

\* The lines of UserListViewSet.list, get_queryset, UserFilter.__init__ and
\* UserFilter.filter_queryset for a query string.
UserListLog(p, q) ==
    (IF DOMAIN q # {}
     THEN <<Line(p, "filtered users with", 0, <<q>>)>> ELSE <<>>)
    \o <<Line(p, IF users[p].is_staff \/ users[p].is_superuser
                 THEN "accessed the list of all users"
                 ELSE "accessed their own profile", 0, <<>>)>>
    \o (IF (DOMAIN q) \cap UserFilterFields # {}
        THEN <<Line(p, "filtered users by", 0,
                    <<(DOMAIN q) \cap UserFilterFields>>)>>
        ELSE <<>>)
    \o (IF DOMAIN q # {}
        THEN <<Line(p, "user search", 0,
                    <<Cardinality(FilteredUsers(p, q)),
                      Cardinality(UserQueryset(p))>>)>>
        ELSE <<>>)

\* UserListViewSet.list: the users of the queryset that pass the filter,
\* each through UserSerializer (the user table has no default order; the
\* body is the set of the rows returned).
UserList(p, q) ==
    /\ resp' = Response("user_list", p, 0, q, 200,
                        {UserRepr(users, u) : u \in FilteredUsers(p, q)},
                        UserListLog(p, q))
    /\ UNCHANGED store

(***************************************************************************)
(* The requests the model issues.                                          *)
(***************************************************************************)
Buy == <<"B", "u", "y">>

\* Payloads of task create and update-description: a plain description,
\* one padded with spaces that comes with the read-only fields and an
\* owner, an empty one, and a payload with no description.
TaskPayloads ==
    { [description |-> Buy],
      [description |-> <<" ", "a", " ">>, completed |-> TRUE, user |-> 1,
       creation_time |-> 9, updated_at |-> 9],
      [description |-> <<>>, completed |-> FALSE],
      [completed |-> TRUE, user |-> 1] }

\* Query strings of the task list.
TaskQueries ==
    { EmptyPayload,
      [completed |-> TRUE],
      [completed |-> FALSE, description__contains |-> <<"U">>],
      [description |-> <<"b", "U", "Y">>, description__startswith |-> <<"B">>,
       ordering |-> "user"],
      [ordering |-> "-creation_time"] }

SeedPassword == <<"p", "a", "s", "s", "w", "o", "r", "d">>

StrongPassword == <<"S", "t", "r", "0", "n", "g", "!", "1">>

NewPassword == <<"N", "e", "w", "P", "@", "s", "s", "4">>

\* Payloads of register.
RegisterPayloads ==
    { [username |-> <<"c", "y">>, email |-> <<"c", "@", "y">>,
       password |-> StrongPassword],
      [username |-> <<"c", "y">>, password |-> StrongPassword,
       is_active |-> FALSE, is_staff |-> TRUE, is_superuser |-> TRUE],
      [username |-> <<"A", "b">>, email |-> <<"c", "@", "y">>,
       password |-> StrongPassword],
      [username |-> <<>>, email |-> <<"c", "y">>,
       password |-> <<"S", "h", "0", "r", "t", "!">>],
      [username |-> <<"c", "y">>, email |-> <<"c", "@", "y">>,
       password |-> <<"1", "2", "3", "4", "5", "6", "7", "8">>],
      [username |-> <<"c", "y">>, email |-> <<"c", "@", "y">>,
       password |-> SeedPassword] }

\* Credentials sent to the token endpoint: of a registered user, of
\* user 2 after and before a change of password.
TokenPayloads ==
    { [username |-> <<"c", "y">>, password |-> StrongPassword],
      [username |-> <<"b", "y">>, password |-> NewPassword],
      [username |-> <<"b", "y">>, password |-> SeedPassword] }

\* Payloads of profile update and partial update.
ProfilePayloads ==
    { EmptyPayload,
      [is_staff |-> TRUE, is_superuser |-> TRUE],
      [password |-> NewPassword, is_staff |-> TRUE],
      [email |-> <<"y", "@", "c">>, first_name |-> <<"A">>,
       last_name |-> <<"B">>, password |-> NewPassword,
       username |-> <<"z">>, is_superuser |-> TRUE, is_active |-> FALSE],
      [email |-> <<"y", "c">>, password |-> SeedPassword,
       is_staff |-> TRUE] }

\* Query strings of the user list.
UserQueries ==
    { EmptyPayload,
      [username |-> <<"B">>],
      [email |-> <<"@", "C">>],
      [username |-> <<"y">>, email |-> <<"b">>] }

\* The requests a run of the task endpoints mixes in from the user
\* endpoints.
FewProfilePayloads == {d \in ProfilePayloads : Has(d, "username")}

(***************************************************************************)
(* The seeded database (seed_data, the factories of the test suite): two   *)
(* users whose role flags vary, and one task of the second user.  A third  *)
(* user can only come from register.                                       *)
(***************************************************************************)
SeedUser(name, staff, super) ==
    UserRow(name, name \o <<"@", "c">>, <<>>, <<>>, Hash(SeedPassword),
            staff, super, TRUE)

\* The role flags (is_staff, is_superuser) of users 1 and 2: a staff
\* member and a regular user, an administrator and a staff member, a
\* superuser who is not staff and a regular user.
SeedRoles ==
    { <<<<TRUE, FALSE>>, <<FALSE, FALSE>>>>,
      <<<<TRUE, TRUE>>, <<TRUE, FALSE>>>>,
      <<<<FALSE, TRUE>>, <<FALSE, FALSE>>>> }

NoRequest ==
    Response("none", Anonymous, 0, EmptyPayload, 0, EmptyPayload, NoLog)

Init ==
    /\ \E r \in SeedRoles :
           users = (1 :> SeedUser(<<"A", "b">>, r[1][1], r[1][2]))
                   @@ (2 :> SeedUser(<<"b", "y">>, r[2][1], r[2][2]))
    /\ tasks = (1 :> TaskRow(2, Buy, FALSE, 0, 0))
    /\ lastUserId = 2
    /\ lastTaskId = 1
    /\ now = 0
    /\ resp = NoRequest
    /\ timeZone = 0
    /\ inflight = <<>>

\* The task endpoints, with the payloads and query strings given.
TaskRequests(taskData, taskQueries) ==
    /\ UNCHANGED aside
    /\ \/ \E p \in Principals, i \in TaskIds : TaskDetail(p, i)
       \/ \E p \in Principals, d \in taskData : TaskCreate(p, d)
       \/ \E p \in Principals, i \in TaskIds, d \in taskData :
              TaskUpdateDescription(p, i, d)
       \/ \E p \in Principals, i \in TaskIds : TaskToggleCompletion(p, i)
       \/ \E p \in Principals, i \in TaskIds : TaskDelete(p, i)
       \/ \E p \in Principals, q \in taskQueries : TaskList(p, q)

\* The user endpoints, with the payloads and query strings given.
UserRequests(registerData, profileData, userQueries) ==
    /\ UNCHANGED aside
    /\ \/ \E d \in registerData : Register(d)
       \/ \E p \in Principals, u \in UserIds : ProfileRetrieve(p, u)
       \/ \E p \in Principals, u \in UserIds, d \in profileData,
             partial \in BOOLEAN : ProfileUpdate(p, u, d, partial)
       \/ \E p \in Principals, u \in UserIds : ProfileDestroy(p, u)
       \/ \E p \in Principals, q \in userQueries : UserList(p, q)

\* The task endpoints in full, among a few requests to the user endpoints.
Next ==
    \/ TaskRequests(TaskPayloads, TaskQueries)
    \/ \E p \in Principals, d \in FewProfilePayloads :
           ProfileUpdate(p, p, d, TRUE) /\ UNCHANGED aside
    \/ \E p \in Principals, u \in UserIds :
           ProfileDestroy(p, u) /\ UNCHANGED aside

Spec == Init /\ [][Next]_vars

\* The same requests, among tasks inserted without a request.
NextOwners ==
    \/ Next
    \/ \E u \in {0} \cup UserIds : TaskInsert(u, Buy) /\ UNCHANGED aside

SpecOwners == Init /\ [][NextOwners]_vars

\* The user endpoints in full, the token endpoint, and the task list
\* that shows what a deleted user's tasks became.
NextUsers ==
    \/ UserRequests(RegisterPayloads, ProfilePayloads, UserQueries)
    \/ \E d \in TokenPayloads : TokenObtain(d) /\ UNCHANGED aside
    \/ \E p \in Principals : TaskList(p, EmptyPayload) /\ UNCHANGED aside

SpecUsers == Init /\ [][NextUsers]_vars

(***************************************************************************)
(* Requests with and without credentials: the permission classes of the   *)
(* view are checked before its handler runs.                               *)
(***************************************************************************)
\* The answer to a request without valid credentials.
NotAuthenticated ==
    [detail |-> "Authentication credentials were not provided."]

TaskEndpoints == {"detail", "create", "update_description", "toggle",
                  "delete", "list"}

ProfileEndpoints == {"profile_retrieve", "profile_update",
                     "profile_partial_update", "profile_destroy"}

\* Task views that leave IsAuthenticated out of permission_classes.
PermissionClasses_OwnerOnly(op) ==
    IF op \in TaskEndpoints THEN {"IsOwner"}
    ELSE IF op \in ProfileEndpoints THEN {"IsAuthenticated", "IsOwnerOrStaff"}
    ELSE IF op = "user_list" THEN {"IsAuthenticated"}
    ELSE {"AllowAny"}

\* permission_classes of the view that serves the endpoint.
PermissionClasses(op) ==
    IF op \in TaskEndpoints THEN {"IsAuthenticated", "IsOwner"}
    ELSE IF op \in ProfileEndpoints THEN {"IsAuthenticated", "IsOwnerOrStaff"}
    ELSE IF op = "user_list" THEN {"IsAuthenticated"}
    ELSE {"AllowAny"}

\* The handler of the endpoint, run for principal p.
Serve(op, p, pk, d) ==
    \/ op = "detail" /\ TaskDetail(p, pk)
    \/ op = "create" /\ TaskCreate(p, d)
    \/ op = "update_description" /\ TaskUpdateDescription(p, pk, d)
    \/ op = "toggle" /\ TaskToggleCompletion(p, pk)
    \/ op = "delete" /\ TaskDelete(p, pk)
    \/ op = "list" /\ TaskList(p, d)
    \/ op = "register" /\ Register(d)
    \/ op = "profile_retrieve" /\ ProfileRetrieve(p, pk)
    \/ op = "profile_update" /\ ProfileUpdate(p, pk, d, FALSE)
    \/ op = "profile_partial_update" /\ ProfileUpdate(p, pk, d, TRUE)
    \/ op = "profile_destroy" /\ ProfileDestroy(p, pk)
    \/ op = "user_list" /\ UserList(p, d)

\* APIView.initial: check_permissions runs before the handler, and a
\* request that fails IsAuthenticated is answered 401 without the handler
\* being run.
Request(op, p, pk, d) ==
    IF p = Anonymous /\ "IsAuthenticated" \in PermissionClasses(op)
    THEN /\ resp' = Response(op, Anonymous, pk, d, 401, NotAuthenticated,
                             NoLog)
         /\ UNCHANGED store
    ELSE Serve(op, p, pk, d)

\* One request to every endpoint, on every id.
AuthRequests ==
    {[op |-> o, pk |-> i, data |-> EmptyPayload] :
         o \in {"detail", "toggle", "delete"}, i \in TaskIds}
    \cup {[op |-> "update_description", pk |-> i, data |-> d] :
              i \in TaskIds,
              d \in {[description |-> <<"a">>], [completed |-> TRUE]}}
    \cup {[op |-> "create", pk |-> 0, data |-> [description |-> Buy]],
          [op |-> "list", pk |-> 0, data |-> EmptyPayload],
          [op |-> "user_list", pk |-> 0, data |-> EmptyPayload]}
    \cup {[op |-> "register", pk |-> 0, data |-> d] :
              d \in {r \in RegisterPayloads :
                         /\ r.username = <<"c", "y">>
                         /\ r.password = StrongPassword}}
    \cup {[op |-> o, pk |-> u, data |-> EmptyPayload] :
              o \in {"profile_retrieve", "profile_destroy"}, u \in UserIds}
    \cup {[op |-> o, pk |-> u, data |-> d] :
              o \in {"profile_update", "profile_partial_update"},
              u \in UserIds, d \in FewProfilePayloads}

NextAuth ==
    \E r \in AuthRequests, p \in {Anonymous} \cup Principals :
        Request(r.op, p, r.pk, r.data) /\ UNCHANGED aside

SpecAuth == Init /\ [][NextAuth]_vars

(***************************************************************************)
(* Toggle requests served at the same time: each loads the task            *)
(* (get_object) and later saves the instance it loaded.                    *)
(***************************************************************************)
\* A save that inserts the instance as a new row.
Saved_AsNewRow(table, id, row) ==
    ((CHOOSE n \in 1..(Cardinality(DOMAIN table) + 1) : n \notin DOMAIN table)
        :> row) @@ table

\* Model.save of a loaded instance: the row with that primary key takes
\* every field of the instance (an UPDATE); when no row has the key the
\* instance is inserted under it, and auto_now_add stamps the insert.
Saved(table, id, row) ==
    IF id \in DOMAIN table
    THEN (id :> row) @@ table
    ELSE (id :> [row EXCEPT !.creation_time = CommitTime]) @@ table

\* The request k of those in flight is over.
Finished(k) ==
    SubSeq(inflight, 1, k - 1) \o SubSeq(inflight, k + 1, Len(inflight))

\* TaskToggleCompletionView.update up to get_object: the task is looked up
\* in the principal's queryset and loaded.
ToggleRead(p, i) ==
    LET st == TaskObjectStatus(p, i) IN
    IF st # 200
    THEN /\ resp' = Response("toggle", p, i, EmptyPayload, st, ErrorBody(st),
                             NoLog)
         /\ UNCHANGED <<store, aside>>
    ELSE /\ Len(inflight) < MaxRequests
         /\ inflight' = Append(inflight, [op |-> "toggle", user |-> p,
                                          pk |-> i, task |-> tasks[i]])
         /\ UNCHANGED <<store, resp, timeZone>>

\* TaskToggleCompletionView.update from toggle_completion on: the loaded
\* instance is flipped and saved, and the response shows that instance.
ToggleWrite(k) ==
    LET r == inflight[k]
        row == ToggledTask(r.task) IN
    /\ r.op = "toggle"
    /\ CanCommit
    /\ tasks' = Saved(tasks, r.pk, row)
    /\ now' = CommitTime
    /\ inflight' = Finished(k)
    /\ resp' = Response("toggle", r.user, r.pk, EmptyPayload, 200,
                        TaskRepr((r.pk :> row), r.pk),
                        <<Line(r.user, "toggled task", r.pk,
                               <<StatusName(r.task.completed),
                                 StatusName(row.completed)>>)>>)
    /\ UNCHANGED <<users, lastUserId, lastTaskId, timeZone>>

NextToggles ==
    \/ \E p \in Principals, i \in TaskIds : ToggleRead(p, i)
    \/ \E k \in 1..Len(inflight) : ToggleWrite(k)

SpecToggles == Init /\ [][NextToggles]_vars

(***************************************************************************)
(* Update-description and delete requests served at the same time as       *)
(* toggles.  Both views call get_object themselves and then the handler    *)
(* of the mixin, which calls get_object again before it writes.            *)
(***************************************************************************)
\* The request k in flight, with some of its fields replaced.
Advanced(k, r) == [inflight EXCEPT ![k] = r]

\* TaskUpdateDescriptionView.update up to old_description: the first
\* get_object.
UpdateRead(p, i, d) ==
    LET st == TaskObjectStatus(p, i) IN
    IF st # 200
    THEN /\ resp' = Response("update_description", p, i, d, st, ErrorBody(st),
                             NoLog)
         /\ UNCHANGED <<store, aside>>
    ELSE /\ Len(inflight) < MaxRequests
         /\ inflight' = Append(inflight,
                               [op |-> "update_description", user |-> p,
                                pk |-> i, task |-> tasks[i], data |-> d,
                                old |-> tasks[i].description,
                                step |-> "found"])
         /\ UNCHANGED <<store, resp, timeZone>>

\* UpdateModelMixin.update up to is_valid: the second get_object, then the
\* validation of the payload.
UpdateReload(k) ==
    LET r == inflight[k]
        st == TaskObjectStatus(r.user, r.pk)
        errs == TaskSerializerErrors(r.data, TRUE) IN
    /\ r.op = "update_description"
    /\ r.step = "found"
    /\ IF st # 200
       THEN /\ resp' = Response(r.op, r.user, r.pk, r.data, st, ErrorBody(st),
                                NoLog)
            /\ inflight' = Finished(k)
       ELSE IF errs # {}
       THEN /\ resp' = Response(r.op, r.user, r.pk, r.data, 400, errs, NoLog)
            /\ inflight' = Finished(k)
       ELSE /\ inflight' = Advanced(k, [r EXCEPT !.task = tasks[r.pk],
                                                 !.step = "loaded"])
            /\ UNCHANGED resp
    /\ UNCHANGED <<store, timeZone>>

\* UpdateModelMixin.perform_update (serializer.save: the validated fields
\* are set on the loaded instance, which is saved), then the log line of
\* the view.
UpdateWrite(k) ==
    LET r == inflight[k]
        row == UpdatedTask(r.task, TaskValidatedData(r.data)) IN
    /\ r.op = "update_description"
    /\ r.step = "loaded"
    /\ CanCommit
    /\ tasks' = Saved(tasks, r.pk, row)
    /\ now' = CommitTime
    /\ inflight' = Finished(k)
    /\ resp' = Response(r.op, r.user, r.pk, r.data, 200,
                        TaskRepr((r.pk :> row), r.pk),
                        IF Has(r.data, "description")
                        THEN <<Line(r.user, "updated task description", r.pk,
                                    <<r.old, r.data.description>>)>>
                        ELSE NoLog)
    /\ UNCHANGED <<users, lastUserId, lastTaskId, timeZone>>

\* TaskDeleteView.destroy up to the log line: the first get_object; the
\* line is written before anything is deleted.
DeleteRead(p, i) ==
    LET st == TaskObjectStatus(p, i) IN
    IF st # 200
    THEN /\ resp' = Response("delete", p, i, EmptyPayload, st, ErrorBody(st),
                             NoLog)
         /\ UNCHANGED <<store, aside>>
    ELSE /\ Len(inflight) < MaxRequests
         /\ inflight' = Append(inflight,
                               [op |-> "delete", user |-> p, pk |-> i,
                                task |-> tasks[i], step |-> "found",
                                log |-> <<Line(p, "deleted task", i,
                                               <<tasks[i].description>>)>>])
         /\ UNCHANGED <<store, resp, timeZone>>

\* DestroyModelMixin.destroy: the second get_object.
DeleteReload(k) ==
    LET r == inflight[k]
        st == TaskObjectStatus(r.user, r.pk) IN
    /\ r.op = "delete"
    /\ r.step = "found"
    /\ IF st # 200
       THEN /\ resp' = Response(r.op, r.user, r.pk, EmptyPayload, st,
                                ErrorBody(st), r.log)
            /\ inflight' = Finished(k)
       ELSE /\ inflight' = Advanced(k, [r EXCEPT !.task = tasks[r.pk],
                                                 !.step = "loaded"])
            /\ UNCHANGED resp
    /\ UNCHANGED <<store, timeZone>>

\* DestroyModelMixin.perform_destroy: instance.delete(), then 204.
DeleteWrite(k) ==
    LET r == inflight[k] IN
    /\ r.op = "delete"
    /\ r.step = "loaded"
    /\ CanCommit
    /\ tasks' = Without(tasks, r.pk)
    /\ now' = CommitTime
    /\ inflight' = Finished(k)
    /\ resp' = Response(r.op, r.user, r.pk, EmptyPayload, 204, EmptyPayload,
                        r.log)
    /\ UNCHANGED <<users, lastUserId, lastTaskId, timeZone>>

\* The description an update request in flight sends.
Renamed == [description |-> <<"a">>]

NextConcurrent ==
    \/ \E p \in Principals, i \in TaskIds : ToggleRead(p, i)
    \/ \E k \in 1..Len(inflight) : ToggleWrite(k)
    \/ \E p \in Principals, i \in TaskIds : UpdateRead(p, i, Renamed)
    \/ \E k \in 1..Len(inflight) : UpdateReload(k)
    \/ \E k \in 1..Len(inflight) : UpdateWrite(k)
    \/ \E p \in Principals, i \in TaskIds : DeleteRead(p, i)
    \/ \E k \in 1..Len(inflight) : DeleteReload(k)
    \/ \E k \in 1..Len(inflight) : DeleteWrite(k)

SpecConcurrent == Init /\ [][NextConcurrent]_vars

(***************************************************************************)
(* The list endpoint over tables of tasks created around the ends of a    *)
(* day, in time zones east and west of UTC.                               *)
(***************************************************************************)
\* The offsets of the current time zone from UTC, in ticks.
TimeZones == {-1, 0, 1}

\* The first and the last tick of the second day and the first two ticks
\* of the third (UTC).
FilterInstants ==
    {TicksPerDay, 2 * TicksPerDay - 1, 2 * TicksPerDay, 2 * TicksPerDay + 1}

FirstDay == MonthPrefix \o <<"0", "1">>
SecondDay == MonthPrefix \o <<"0", "2">>
ThirdDay == MonthPrefix \o <<"0", "3">>

\* Query strings that supply one filter, several filters, and dates that
\* are none.
FilterQueries ==
    { EmptyPayload,
      [description |-> <<"b", "U", "Y">>],
      [description__contains |-> <<"U">>],
      [description__startswith |-> <<"b">>],
      [description__regex |-> <<"^", "b", ".", "*", "y", "$">>],
      [description__regex |-> <<"U", "x", "*", "$">>],
      [completed |-> TRUE],
      [created_after |-> SecondDay],
      [created_before |-> SecondDay],
      [created_before |-> FirstDay],
      [created_on |-> SecondDay],
      [created_on |-> ThirdDay],
      [description__contains |-> <<"U">>, completed |-> TRUE],
      [description__startswith |-> <<"a">>, completed |-> FALSE,
       created_on |-> SecondDay, ordering |-> "creation_time"],
      [created_after |-> SecondDay, created_before |-> SecondDay],
      [created_after |-> FirstDay, created_before |-> SecondDay],
      [created_after |-> SecondDay, created_before |-> ThirdDay],
      [created_after |-> ThirdDay, created_before |-> SecondDay],
      [description |-> Buy, description__contains |-> <<"u">>,
       description__startswith |-> <<"B">>,
       description__regex |-> <<"u", "y">>, completed |-> FALSE,
       created_after |-> SecondDay, created_before |-> SecondDay,
       created_on |-> SecondDay],
      [created_on |-> MonthPrefix \o <<"3", "2">>],
      [created_after |-> <<"y">>, created_before |-> SecondDay] }

\* Two tasks created at any of the instants: the first of either user,
\* with either description and either status, the second a completed
\* task of user 2.
FilterTasks(u, descriptions, statuses) ==
    { TaskRow(u, d, c, t, t) :
          d \in descriptions, c \in statuses, t \in FilterInstants }

InitFilters ==
    /\ users = (1 :> SeedUser(<<"A", "b">>, TRUE, FALSE))
               @@ (2 :> SeedUser(<<"b", "y">>, FALSE, FALSE))
    /\ \E u \in {1, 2} :
           \E r1 \in FilterTasks(u, {Buy, <<"a">>}, BOOLEAN),
              r2 \in FilterTasks(2, {Buy}, {TRUE}) :
               tasks = (1 :> r1) @@ (2 :> r2)
    /\ lastUserId = 2
    /\ lastTaskId = 2
    /\ now = 2 * TicksPerDay + 1
    /\ resp = NoRequest
    /\ timeZone \in TimeZones
    /\ inflight = <<>>

NextFilters ==
    \E p \in Principals, q \in FilterQueries :
        TaskList(p, q) /\ UNCHANGED aside

SpecFilters == InitFilters /\ [][NextFilters]_vars

(***************************************************************************)
(* Properties of the task endpoints (checked under Spec) and of the user   *)
(* endpoints (checked under SpecUsers).  In a step, resp' is the request   *)
(* the step served and its response; the unprimed store is the store the   *)
(* request found.                                                          *)
(***************************************************************************)

\* C1: a principal who does not own task T (a staff member or superuser
\* included) gets 404 from detail GET, update-description PATCH, toggle
\* PATCH and DELETE on T's id, and the request leaves T, and the whole task
\* table, as it was.
C1_NonOwnerGetsNotFound ==
    [][\A i \in DOMAIN tasks :
          (/\ resp'.op \in {"detail", "update_description", "toggle", "delete"}
           /\ resp'.pk = i
           /\ tasks[i].user # resp'.user)
          => (/\ resp'.status = 404
              /\ tasks' = tasks
              /\ users' = users)]_vars

\* C1 happens: an administrator (staff and superuser) asked to delete a
\* task of another user, got 404, and the task is still stored.
C1_Witness ==
    /\ resp.op = "delete"
    /\ resp.status = 404
    /\ resp.pk \in DOMAIN tasks
    /\ tasks[resp.pk].user # resp.user
    /\ users[resp.user].is_staff
    /\ users[resp.user].is_superuser

\* C2: the task list a principal gets holds only tasks the principal owns,
\* each once, whatever the filters, the ordering and the principal's role
\* flags; a request with no filter holds every task the principal owns.
C2_ListScopedToPrincipal ==
    resp.op = "list" =>
        LET ids == {resp.body[k].id : k \in 1..Len(resp.body)} IN
        /\ \A i \in ids : i \in DOMAIN tasks /\ tasks[i].user = resp.user
        /\ Cardinality(ids) = Len(resp.body)
        /\ (DOMAIN resp.data) \subseteq {"ordering"} =>
               ids = {i \in DOMAIN tasks : tasks[i].user = resp.user}

\* C2 happens: a staff member who owns a task listed with an ordering and
\* no filter while another user's task was stored, and got only their own.
C2_Witness ==
    /\ resp.op = "list"
    /\ DOMAIN resp.data = {"ordering"}
    /\ users[resp.user].is_staff
    /\ Len(resp.body) = 1
    /\ \E i \in DOMAIN tasks : tasks[i].user # resp.user

\* C3: a self-service update by a user with neither role flag, whose
\* payload sets is_staff and/or is_superuser, never persists them: both
\* flags are still false after the request.  The flags do not enter
\* validation: PATCH reports 200 exactly when the e-mail and password it
\* supplies are valid, PUT exactly when in addition it supplies a password
\* (the password is required on PUT); any other outcome is 400 with the
\* user table unchanged.
C3_RoleFlagsInert ==
    [][\A p \in DOMAIN users :
          (/\ resp'.op \in {"profile_update", "profile_partial_update"}
           /\ resp'.user = p
           /\ resp'.pk = p
           /\ ~users[p].is_staff
           /\ ~users[p].is_superuser
           /\ (DOMAIN resp'.data) \cap {"is_staff", "is_superuser"} # {})
          => LET d == resp'.data
                 valid ==
                     /\ Has(d, "email") => ValidateEmail(Strip(d.email))
                     /\ Has(d, "password") =>
                            ValidatePassword(Strip(d.password))
                     /\ resp'.op = "profile_update" => Has(d, "password")
             IN /\ p \in DOMAIN users'
                /\ ~users'[p].is_staff
                /\ ~users'[p].is_superuser
                /\ resp'.status = (IF valid THEN 200 ELSE 400)
                /\ ~valid => users' = users]_vars

\* C3 happens: a PATCH of one's own profile that sets both role flags got
\* 200 and the user is still neither staff nor superuser.
C3_Witness ==
    /\ resp.op = "profile_partial_update"
    /\ resp.status = 200
    /\ resp.pk = resp.user
    /\ Has(resp.data, "is_staff") /\ resp.data.is_staff
    /\ Has(resp.data, "is_superuser") /\ resp.data.is_superuser
    /\ ~users[resp.user].is_staff
    /\ ~users[resp.user].is_superuser

\* C3 as first stated: such an update, PUT or PATCH, succeeds with 200 and
\* leaves both flags false.
C3_AlwaysSucceeds ==
    [][\A p \in DOMAIN users :
          (/\ resp'.op \in {"profile_update", "profile_partial_update"}
           /\ resp'.user = p
           /\ resp'.pk = p
           /\ ~users[p].is_staff
           /\ ~users[p].is_superuser
           /\ (DOMAIN resp'.data) \cap {"is_staff", "is_superuser"} # {})
          => (/\ resp'.status = 200
              /\ ~users'[p].is_staff
              /\ ~users'[p].is_superuser)]_vars

C5_UserListVisibility ==
    resp.op = "user_list" =>
        LET p == resp.user
            q == resp.data
            ids == {r.id : r \in resp.body} IN
        /\ Cardinality(ids) = Cardinality(resp.body)
        /\ IF users[p].is_staff \/ users[p].is_superuser
           THEN ids = {u \in DOMAIN users : MatchesUserFilter(users[u], q)}
           ELSE /\ ids \subseteq {p}
                /\ q = EmptyPayload => ids = {p}

\* C5 happens: a superuser who is not staff listed the users with no
\* filter and the list holds all three users, one of them inactive.
C5_Witness ==
    /\ resp.op = "user_list"
    /\ resp.data = EmptyPayload
    /\ ~users[resp.user].is_staff
    /\ users[resp.user].is_superuser
    /\ Cardinality(resp.body) = 3
    /\ \E r \in resp.body : ~users[r.id].is_active

\* C6: the owner of a task is the principal whose create request stored
\* it, and no request changes the owner of a stored task, whatever its
\* payload carries (a `user` key included).
C6_OwnerSetOnceAtCreation ==
    [][/\ \A i \in (DOMAIN tasks) \cap (DOMAIN tasks') :
              tasks'[i].user = tasks[i].user
       /\ \A i \in (DOMAIN tasks') \ (DOMAIN tasks) :
              /\ resp'.op = "create"
              /\ resp'.status = 201
              /\ tasks'[i].user = resp'.user]_vars

\* C6 happens: the owner updated the description with a payload that names
\* another user as `user`; the request was accepted and the task is still
\* the owner's.
C6_Witness ==
    /\ resp.op = "update_description"
    /\ resp.status = 200
    /\ Has(resp.data, "user")
    /\ resp.data.user # resp.user
    /\ resp.data.user \in DOMAIN users
    /\ tasks[resp.pk].user = resp.user

\* C7: an accepted toggle stores the negation of `completed` and answers
\* with the representation of the task that shows the stored value; when
\* the request served just before was an accepted toggle of the same task,
\* `completed` is back at the value that earlier toggle found (the status
\* it logged as the old one).
C7_ToggleFlips ==
    [][(resp'.op = "toggle" /\ resp'.status = 200) =>
          LET i == resp'.pk IN
          /\ i \in DOMAIN tasks
          /\ i \in DOMAIN tasks'
          /\ tasks'[i].completed = ~tasks[i].completed
          /\ resp'.body.id = i
          /\ resp'.body.completed = tasks'[i].completed
          /\ resp'.body.description = tasks'[i].description
          /\ resp'.body.creation_time = tasks'[i].creation_time
          /\ resp'.body.updated_at = tasks'[i].updated_at
          /\ (resp.op = "toggle" /\ resp.status = 200 /\ resp.pk = i) =>
                 tasks'[i].completed = (resp.log[1].values[1] = "completed")]_vars

\* C7 happens: the seeded task, stored incomplete, was toggled twice: the
\* second toggle found it completed and left it incomplete.
C7_Witness ==
    /\ resp.op = "toggle"
    /\ resp.status = 200
    /\ resp.log[1].values = <<"completed", "incomplete">>
    /\ tasks[resp.pk].creation_time = 0
    /\ ~tasks[resp.pk].completed
    /\ now = 2

\* C8: a create request is accepted (201) exactly when its description is
\* not blank, whether or not the payload carries `completed`; the task it
\* stores is owned by the principal and has completed = false, and the
\* response shows completed = false.
C8_CreateOwnedAndIncomplete ==
    resp.op = "create" =>
        /\ resp.status = (IF /\ Has(resp.data, "description")
                             /\ Strip(resp.data.description) # <<>>
                          THEN 201 ELSE 400)
        /\ resp.status = 201 =>
               /\ resp.body.id \in DOMAIN tasks
               /\ tasks[resp.body.id].user = resp.user
               /\ ~tasks[resp.body.id].completed
               /\ ~resp.body.completed

\* C8 happens: a create whose payload carries completed = true and another
\* user as `user` was accepted, and the stored task is the principal's and
\* incomplete.
C8_Witness ==
    /\ resp.op = "create"
    /\ resp.status = 201
    /\ Has(resp.data, "completed") /\ resp.data.completed
    /\ Has(resp.data, "user") /\ resp.data.user # resp.user
    /\ tasks[resp.body.id].user = resp.user
    /\ ~tasks[resp.body.id].completed

\* C9: an accepted update-description leaves completed, creation_time and
\* the owner of the task, every other task and every user as they were,
\* also when the payload supplies those fields; and a step that changes
\* `completed` of a stored task is a toggle of that task.
C9_UpdateKeepsOtherFields ==
    [][/\ (resp'.op = "update_description" /\ resp'.status = 200) =>
              LET i == resp'.pk IN
              /\ i \in DOMAIN tasks
              /\ DOMAIN tasks' = DOMAIN tasks
              /\ tasks'[i].completed = tasks[i].completed
              /\ tasks'[i].creation_time = tasks[i].creation_time
              /\ tasks'[i].user = tasks[i].user
              /\ \A j \in (DOMAIN tasks) \ {i} : tasks'[j] = tasks[j]
              /\ users' = users
       /\ \A j \in (DOMAIN tasks) \cap (DOMAIN tasks') :
              tasks'[j].completed # tasks[j].completed =>
                  resp'.op = "toggle" /\ resp'.pk = j]_vars

\* C9 happens: an update-description whose payload carries completed = true
\* and a creation_time was accepted; the task has the new description and
\* is still incomplete, with the creation_time it had.
C9_Witness ==
    /\ resp.op = "update_description"
    /\ resp.status = 200
    /\ Has(resp.data, "completed") /\ resp.data.completed
    /\ Has(resp.data, "creation_time")
    /\ tasks[resp.pk].description = Strip(resp.data.description)
    /\ ~tasks[resp.pk].completed
    /\ tasks[resp.pk].creation_time # resp.data.creation_time

\* C10: a create with an empty description reports 400 naming the field
\* `description` and stores no task; an update-description by the owner
\* with an empty description reports 400 and stores nothing; and no stored
\* task has an empty description.
C10_BlankDescriptionRejected ==
    [][/\ (/\ resp'.op = "create"
           /\ Has(resp'.data, "description")
           /\ resp'.data.description = <<>>)
          => (/\ resp'.status = 400
              /\ "description" \in resp'.body
              /\ tasks' = tasks
              /\ lastTaskId' = lastTaskId)
       /\ (/\ resp'.op = "update_description"
           /\ resp'.pk \in DOMAIN tasks
           /\ tasks[resp'.pk].user = resp'.user
           /\ Has(resp'.data, "description")
           /\ resp'.data.description = <<>>)
          => (/\ resp'.status = 400
              /\ "description" \in resp'.body
              /\ tasks' = tasks)
       /\ \A i \in DOMAIN tasks : tasks[i].description # <<>>
       /\ \A i \in DOMAIN tasks' : tasks'[i].description # <<>>]_vars

\* C10 happens: the owner sent an update-description with an empty
\* description, got 400, and the task has the description it had.
C10_Witness ==
    /\ resp.op = "update_description"
    /\ resp.status = 400
    /\ Has(resp.data, "description")
    /\ resp.data.description = <<>>
    /\ resp.pk \in DOMAIN tasks
    /\ tasks[resp.pk].user = resp.user
    /\ tasks[resp.pk].description # <<>>

\* C11: a delete of a task by its owner reports 204 with no content and
\* removes the task.  From then on the id stays absent: primary keys are
\* handed out once, so an id up to lastTaskId that is not stored is the id
\* of a removed task; detail, update-description, toggle and delete on it
\* report 404 to every principal, its owner included, no step stores it
\* again, and no list shows it.
C11_DeleteIsTerminal ==
    [][/\ (/\ resp'.op = "delete"
           /\ resp'.pk \in DOMAIN tasks
           /\ tasks[resp'.pk].user = resp'.user)
          => (/\ resp'.status = 204
              /\ resp'.body = EmptyPayload
              /\ resp'.pk \notin DOMAIN tasks')
       /\ \A i \in (1..lastTaskId) \ (DOMAIN tasks) :
              /\ i \notin DOMAIN tasks'
              /\ (/\ resp'.op \in {"detail", "update_description", "toggle",
                                   "delete"}
                  /\ resp'.pk = i) => resp'.status = 404
              /\ resp'.op = "list" =>
                     \A k \in 1..Len(resp'.body) : resp'.body[k].id # i]_vars

\* C11 happens: the seeded task of user 2 is gone while user 2 is still
\* stored (so it went by a delete, not with its owner), and user 2 asked to
\* toggle it and got 404.
C11_Witness ==
    /\ resp.op = "toggle"
    /\ resp.status = 404
    /\ resp.pk = 1
    /\ resp.user = 2
    /\ 2 \in DOMAIN users
    /\ 1 \notin DOMAIN tasks

\* C12: task filters supplied together select exactly the intersection of
\* what each of them selects alone on the principal's tasks; a filter the
\* query does not supply takes no part, and a query without filters lists
\* every task of the principal.
C12_FiltersIntersect ==
    (resp.op = "list" /\ resp.status = 200) =>
        LET q == resp.data
            supplied == (DOMAIN q) \cap TaskFilterFields
            Alone(k) == FilteredTasks(resp.user, [f \in {k} |-> q[k]])
        IN  {resp.body[n].id : n \in 1..Len(resp.body)} =
                {i \in TaskQueryset(resp.user) :
                     \A k \in supplied : i \in Alone(k)}

\* C12 happens: the query description__contains=U&completed=true listed
\* one task of a principal who owns another one that contains "u" and is
\* not completed.
C12_Witness ==
    /\ resp.op = "list"
    /\ resp.status = 200
    /\ DOMAIN resp.data = {"description__contains", "completed"}
    /\ Len(resp.body) = 1
    /\ \E i \in TaskQueryset(resp.user) :
           /\ i # resp.body[1].id
           /\ Contains(Lower(tasks[i].description), <<"u">>)
           /\ ~tasks[i].completed

\* C13: created_on=d lists exactly the principal's tasks created from the
\* first to the last instant of day d of the configured time zone, both
\* included, whatever the offset of that zone from UTC: a task created at
\* the last instant of d is listed, one created at the first instant of
\* the next day is not.
C13_CreatedOnLocalDay ==
    (resp.op = "list" /\ resp.status = 200
        /\ DOMAIN resp.data = {"created_on"}) =>
        LET d == ParseDate(resp.data.created_on).day
            Local(t) == t + timeZone
        IN  {resp.body[n].id : n \in 1..Len(resp.body)} =
                {i \in DOMAIN tasks :
                     /\ tasks[i].user = resp.user
                     /\ d * TicksPerDay <= Local(tasks[i].creation_time)
                     /\ Local(tasks[i].creation_time) < (d + 1) * TicksPerDay}

\* C13 happens: in a time zone off UTC, created_on listed the task the
\* principal created at the last instant of that local day and left out
\* the one created at the first instant of the next.
C13_Witness ==
    /\ resp.op = "list"
    /\ resp.status = 200
    /\ DOMAIN resp.data = {"created_on"}
    /\ timeZone # 0
    /\ Len(resp.body) = 1
    /\ LET d == ParseDate(resp.data.created_on).day IN
       /\ tasks[resp.body[1].id].creation_time + timeZone
              = d * TicksPerDay + TicksPerDay - 1
       /\ \E i \in TaskQueryset(resp.user) :
              tasks[i].creation_time + timeZone = (d + 1) * TicksPerDay

\* C14: created_after=d1 lists exactly the principal's tasks created on a
\* calendar date on or after d1, created_before=d2 exactly those created
\* on a date on or before d2, whatever the time of day; together they
\* list exactly the tasks created on a date from d1 to d2.
C14_DateBoundsInclusive ==
    (resp.op = "list" /\ resp.status = 200
        /\ DOMAIN resp.data # {}
        /\ (DOMAIN resp.data) \subseteq {"created_after", "created_before"}) =>
        LET q == resp.data
            \* the calendar date of an instant: the day its local time is in
            DateOf(t) == CHOOSE d \in -1..3 :
                             /\ d * TicksPerDay <= t + timeZone
                             /\ t + timeZone < (d + 1) * TicksPerDay
        IN  {resp.body[n].id : n \in 1..Len(resp.body)} =
                {i \in DOMAIN tasks :
                     /\ tasks[i].user = resp.user
                     /\ Has(q, "created_after") =>
                            DateOf(tasks[i].creation_time)
                                >= ParseDate(q.created_after).day
                     /\ Has(q, "created_before") =>
                            DateOf(tasks[i].creation_time)
                                <= ParseDate(q.created_before).day}

\* C14 happens: created_after and created_before with the same date
\* listed a task created at the last instant of that date and left out
\* tasks of the principal created the day after; and each bound alone
\* listed a task created on its date.
C14_Witness ==
    /\ resp.op = "list"
    /\ resp.status = 200
    /\ DOMAIN resp.data = {"created_after", "created_before"}
    /\ resp.data.created_after = resp.data.created_before
    /\ timeZone # 0
    /\ Len(resp.body) = 1
    /\ LocalDate(tasks[resp.body[1].id].creation_time)
           = ParseDate(resp.data.created_after).day
    /\ LocalDate(tasks[resp.body[1].id].creation_time + 1)
           = ParseDate(resp.data.created_after).day + 1
    /\ \E i \in TaskQueryset(resp.user) :
           LocalDate(tasks[i].creation_time)
               = ParseDate(resp.data.created_after).day + 1

\* C15: a user created by register is never staff and never superuser,
\* whatever the payload contains, and is active unless the payload sets
\* is_active to false (is_active is a field of the serializer, true by
\* default); the response holds the fields of the serializer without the
\* password.
C15_RegisteredUnprivileged ==
    [][(resp'.op = "register" /\ resp'.status = 201) =>
          /\ resp'.pk \notin DOMAIN users
          /\ resp'.pk \in DOMAIN users'
          /\ ~users'[resp'.pk].is_staff
          /\ ~users'[resp'.pk].is_superuser
          /\ users'[resp'.pk].is_active
                 = (Has(resp'.data, "is_active") => resp'.data.is_active)
          /\ "password" \notin DOMAIN resp'.body
          /\ \A k \in (DOMAIN resp'.body) \ {"is_active"} :
                 resp'.body[k] # resp'.data.password]_vars

\* C15 happens: a payload with is_active=false, is_staff=true and
\* is_superuser=true registered a user who is neither staff nor
\* superuser, and not active.
C15_Witness ==
    /\ resp.op = "register"
    /\ resp.status = 201
    /\ Has(resp.data, "is_staff") /\ resp.data.is_staff
    /\ Has(resp.data, "is_superuser") /\ resp.data.is_superuser
    /\ Has(resp.data, "is_active") /\ ~resp.data.is_active
    /\ resp.pk \in DOMAIN users
    /\ ~users[resp.pk].is_staff
    /\ ~users[resp.pk].is_superuser
    /\ ~users[resp.pk].is_active

\* C15 as stated: every user created by register is active, whatever the
\* payload contains.
C15_AlwaysActive ==
    [][(resp'.op = "register" /\ resp'.status = 201) =>
          /\ users'[resp'.pk].is_active
          /\ ~users'[resp'.pk].is_staff
          /\ ~users'[resp'.pk].is_superuser
          /\ "password" \notin DOMAIN resp'.body]_vars

\* C16: the credential stored for a user is the hash of the password
\* supplied, never the password itself: once a register with password p
\* was answered 201, or a profile update carrying password p was answered
\* 200, the stored credential of that user is the hash of p, and a token
\* request that follows with the name of that user, active, and p is
\* answered 200.
C16_StoredCredentialIsHash ==
    [][LET set == \/ resp.op = "register" /\ resp.status = 201
                  \/ /\ resp.op \in {"profile_update", "profile_partial_update"}
                     /\ resp.status = 200
                     /\ Has(resp.data, "password")
       IN  set =>
             /\ users[resp.pk].password # Strip(resp.data.password)
             /\ CheckPassword(Strip(resp.data.password),
                              users[resp.pk].password)
             /\ (/\ resp'.op = "token"
                 /\ resp'.data.username = users[resp.pk].username
                 /\ resp'.data.password = Strip(resp.data.password)
                 /\ users[resp.pk].is_active) => resp'.status = 200]_vars

\* The part of C16 the code keeps: after a profile update with password p
\* answered 200 the stored credential is the hash of p, and a token
\* request that follows with the name of that user, active, and p is
\* answered 200.
C16_UpdateStoresHash ==
    [][(/\ resp.op \in {"profile_update", "profile_partial_update"}
        /\ resp.status = 200
        /\ Has(resp.data, "password")) =>
             /\ CheckPassword(Strip(resp.data.password),
                              users[resp.pk].password)
             /\ (/\ resp'.op = "token"
                 /\ resp'.data.username = users[resp.pk].username
                 /\ resp'.data.password = Strip(resp.data.password)
                 /\ users[resp.pk].is_active) => resp'.status = 200]_vars

\* C16 happens: a token request with the name and the password of a user
\* registered active was answered 401, the stored credential being the
\* password as supplied.
C16_Witness ==
    /\ resp.op = "token"
    /\ resp.status = 401
    /\ \E u \in DOMAIN users :
           /\ users[u].username = resp.data.username
           /\ users[u].password = resp.data.password
           /\ users[u].is_active

\* C17: in every state each task has an owner, and the owner is a stored
\* user.  A row inserted without an owner, or with an owner that is not
\* stored, raises IntegrityError and leaves the store as it was; a profile
\* delete answered 204, by the user or by staff, removes in that step
\* every task of that user and no other task.
C17_EveryTaskHasStoredOwner ==
    [][/\ \A i \in DOMAIN tasks : tasks[i].user \in DOMAIN users
       /\ \A i \in DOMAIN tasks' : tasks'[i].user \in DOMAIN users'
       /\ (resp'.op = "insert" /\ resp'.data.user \notin DOMAIN users) =>
              /\ resp'.body = IntegrityError
              /\ UNCHANGED store
       /\ (resp'.op = "profile_destroy" /\ resp'.status = 204) =>
              /\ resp'.pk \notin DOMAIN users'
              /\ \A i \in DOMAIN tasks :
                     IF tasks[i].user = resp'.pk
                     THEN i \notin DOMAIN tasks'
                     ELSE i \in DOMAIN tasks' /\ tasks'[i] = tasks[i]]_vars

\* C17 happens: a staff member deleted the profile of another user who
\* owned a task, while a task of the staff member was stored and stayed.
C17_Witness ==
    /\ resp.op = "profile_destroy"
    /\ resp.status = 204
    /\ resp.user # resp.pk
    /\ 1 \notin DOMAIN tasks
    /\ lastTaskId >= 2
    /\ \E i \in DOMAIN tasks : tasks[i].user = resp.user

C19_UnauthenticatedGets401 ==
    [][resp'.user = Anonymous =>
          /\ resp'.op \in {"detail", "create", "update_description",
                           "toggle", "delete", "list", "user_list",
                           "profile_retrieve", "profile_update",
                           "profile_partial_update", "profile_destroy"} =>
                 /\ resp'.status = 401
                 /\ UNCHANGED store
          /\ resp'.status # 401 => resp'.op = "register"]_vars

\* C19 happens: a delete without credentials on a stored task was
\* answered 401 and the task is still stored, while a user registered
\* without credentials is stored.
C19_Witness ==
    /\ resp.op = "delete"
    /\ resp.user = Anonymous
    /\ resp.status = 401
    /\ resp.pk \in DOMAIN tasks
    /\ lastUserId > 2

\* C20: whatever the order in which toggle requests on one task load and
\* save it, the task is stored exactly once, with the owner, description
\* and creation instant it had, and every save leaves in `completed` the
\* value one of the requests in flight wrote: the opposite of what that
\* request had loaded.
C20_ConcurrentTogglesKeepRow ==
    [][/\ DOMAIN tasks' = DOMAIN tasks
       /\ \A i \in DOMAIN tasks :
              /\ tasks'[i].user = tasks[i].user
              /\ tasks'[i].description = tasks[i].description
              /\ tasks'[i].creation_time = tasks[i].creation_time
              /\ tasks'[i] # tasks[i] =>
                     \E k \in 1..Len(inflight) :
                         /\ inflight[k].pk = i
                         /\ tasks'[i].completed = ~inflight[k].task.completed
                         /\ resp'.status = 200
                         /\ resp'.body.completed = tasks'[i].completed]_vars

\* C20 happens: two toggles loaded the task before either saved it; both
\* were answered 200 and the task, toggled twice, is completed.
C20_Witness ==
    /\ resp.op = "toggle"
    /\ resp.status = 200
    /\ inflight = <<>>
    /\ 1 \in DOMAIN tasks
    /\ tasks[1].completed
    /\ tasks[1].updated_at = 2
    /\ tasks[1].creation_time = 0

\* C21: each mutating task request is one transaction that no other
\* request gets into: from the moment a request has loaded its task until
\* it writes, the stored task is the one it loaded.
C21_RequestsIsolated ==
    \A k \in 1..Len(inflight) :
        /\ inflight[k].pk \in DOMAIN tasks
        /\ tasks[inflight[k].pk] = inflight[k].task

\* The part of C21 the code keeps: a request changes the store in one
\* write, which touches the one task the request is about and nothing
\* else; the steps before it leave the store as it is.
C21_SingleWrite ==
    [][store' # store =>
          /\ Len(inflight') = Len(inflight) - 1
          /\ resp'.status \in {200, 204}
          /\ users' = users
          /\ \A i \in (DOMAIN tasks) \cup (DOMAIN tasks') :
                 i # resp'.pk =>
                     /\ i \in DOMAIN tasks
                     /\ i \in DOMAIN tasks'
                     /\ tasks'[i] = tasks[i]]_vars

\* C21 happens: a request in flight holds a task it loaded while another
\* request, answered 200, has since written that task.
C21_Witness ==
    /\ resp.status = 200
    /\ \E k \in 1..Len(inflight) :
           /\ inflight[k].pk = resp.pk
           /\ inflight[k].pk \in DOMAIN tasks
           /\ tasks[inflight[k].pk] # inflight[k].task

\* C26: a task that was deleted stays deleted, also when requests that
\* loaded it before the delete save it afterwards: an id that was handed
\* out and is not stored is not stored after any step.
C26_DeleteTerminalUnderConcurrency ==
    [][\A i \in (1..lastTaskId) \ (DOMAIN tasks) : i \notin DOMAIN tasks']_vars

\* The part of C26 the code keeps: right after the write of a delete that
\* is answered 204 the task is not stored.
C26_DeleteRemoves ==
    [][(resp'.op = "delete" /\ resp'.status = 204 /\ resp' # resp) =>
           resp'.pk \notin DOMAIN tasks']_vars

\* C26 happens: a toggle that loaded the task before it was deleted was
\* answered 200 after the delete, and the task is stored again, created
\* at the instant of that save.
C26_Witness ==
    /\ resp.op = "toggle"
    /\ resp.status = 200
    /\ resp.pk \in DOMAIN tasks
    /\ tasks[resp.pk].creation_time = now
    /\ now = 2

\* C27: the write of a toggle leaves the stored description as it was
\* right before that write, also when an update of the description was
\* committed after the toggle loaded the task.
C27_ToggleKeepsDescription ==
    [][(/\ resp'.op = "toggle"
        /\ resp'.status = 200
        /\ store' # store
        /\ resp'.pk \in DOMAIN tasks) =>
           tasks'[resp'.pk].description = tasks[resp'.pk].description]_vars

\* The part of C27 the code keeps: the write of a toggle stores the
\* description the toggle loaded, with `completed` flipped.
C27_ToggleWritesLoadedRow ==
    [][(resp'.op = "toggle" /\ resp'.status = 200 /\ store' # store) =>
           \E k \in 1..Len(inflight) :
               /\ inflight[k].op = "toggle"
               /\ inflight[k].pk = resp'.pk
               /\ tasks'[resp'.pk].description = inflight[k].task.description
               /\ tasks'[resp'.pk].completed = ~inflight[k].task.completed]_vars

\* C27 happens: an update of the description was answered 200 and is
\* stored, while a toggle that loaded the task with the old description
\* has yet to write.
C27_Witness ==
    /\ resp.op = "update_description"
    /\ resp.status = 200
    /\ resp.pk \in DOMAIN tasks
    /\ tasks[resp.pk].description = <<"a">>
    /\ \E k \in 1..Len(inflight) :
           /\ inflight[k].op = "toggle"
           /\ inflight[k].pk = resp.pk
           /\ inflight[k].task.description = Buy

\* C22: every mutating request that succeeds (task create, update of the
\* description, toggle, delete; register, profile update, partial update
\* and delete) logs a line that names the principal, the action and the id
\* of the object, whatever the accepted payload; one that is answered 400,
\* 403 or 404 logs nothing.
C22_MutationsAreLogged ==
    LET actions == [create |-> "created task",
                    update_description |-> "updated task description",
                    toggle |-> "toggled task",
                    delete |-> "deleted task",
                    register |-> "user created",
                    profile_update |-> "performed full update on profile",
                    profile_partial_update |-> "partially updated profile",
                    profile_destroy |-> "deleted profile"]
    IN  resp.op \in DOMAIN actions =>
            IF resp.status \in {200, 201, 204}
            THEN \E n \in 1..Len(resp.log) :
                     /\ resp.log[n].actor = resp.user
                     /\ resp.log[n].action = actions[resp.op]
                     /\ resp.log[n].object =
                            (IF resp.op = "create" THEN resp.body.id
                             ELSE resp.pk)
            ELSE resp.log = NoLog

\* The part of C22 the code keeps: the same, every line logged naming the
\* principal and the object, except that an update of the description
\* whose payload has no `description` logs nothing.
C22_LoggedUnlessNoDescription ==
    LET actions == [create |-> "created task",
                    update_description |-> "updated task description",
                    toggle |-> "toggled task",
                    delete |-> "deleted task",
                    register |-> "user created",
                    profile_update |-> "performed full update on profile",
                    profile_partial_update |-> "partially updated profile",
                    profile_destroy |-> "deleted profile"]
    IN  resp.op \in DOMAIN actions =>
            IF /\ resp.status \in {200, 201, 204}
               /\ resp.op = "update_description" => Has(resp.data, "description")
            THEN /\ \E n \in 1..Len(resp.log) :
                        resp.log[n].action = actions[resp.op]
                 /\ \A n \in 1..Len(resp.log) :
                        /\ resp.log[n].actor = resp.user
                        /\ resp.log[n].object =
                               (IF resp.op = "create" THEN resp.body.id
                                ELSE resp.pk)
            ELSE resp.log = NoLog

\* C22 happens: an update of the description whose payload has no
\* `description` was answered 200, the task was saved at that instant, and
\* nothing was logged.
C22_Witness ==
    /\ resp.op = "update_description"
    /\ resp.status = 200
    /\ ~Has(resp.data, "description")
    /\ tasks[resp.pk].updated_at = now
    /\ now > 0
    /\ resp.log = NoLog

\* C23: a task of another user is answered like no task at all.  For
\* detail, update of the description, toggle and delete, the response to a
\* principal who asks for an id stored for another user and the response
\* for an id that is not stored are the same status and body (404, "Not
\* found."), whatever the payload; neither logs a line nor changes the
\* store.
C23_MaskedLikeAbsent ==
    [][LET masked == /\ resp'.pk \in DOMAIN tasks
                     /\ tasks[resp'.pk].user # resp'.user
           absent == resp'.pk \notin DOMAIN tasks
       IN  (/\ resp'.op \in {"detail", "update_description", "toggle",
                             "delete"}
            /\ masked \/ absent) =>
               /\ <<resp'.status, resp'.body>> = <<404, NotFound>>
               /\ resp'.log = NoLog
               /\ UNCHANGED store]_vars

\* C23 happens: an update of the description with a blank description, on
\* a task stored for another user, was answered 404 by a staff member's
\* request.
C23_Witness ==
    /\ resp.op = "update_description"
    /\ resp.status = 404
    /\ resp.body = NotFound
    /\ Has(resp.data, "description")
    /\ resp.data.description = <<>>
    /\ resp.pk \in DOMAIN tasks
    /\ tasks[resp.pk].user # resp.user
    /\ users[resp.user].is_staff

\* C24: a register whose payload fails validation is answered 400, stores
\* no user, and the body names every field in error at once: the username
\* when it is missing, blank or taken, the e-mail when it is malformed, the
\* password when it is shorter than eight characters, all digits or a
\* common password.  A payload with no field in error is answered 201.
C24_RegisterCollectsErrors ==
    [][resp'.op = "register" =>
          LET d == resp'.data
              name == IF Has(d, "username") THEN Strip(d.username) ELSE <<>>
              mail == IF Has(d, "email") THEN Strip(d.email) ELSE <<>>
              word == IF Has(d, "password") THEN Strip(d.password) ELSE <<>>
              failing ==
                  {f \in {"username", "email", "password"} :
                      \/ /\ f = "username"
                         /\ \/ name = <<>>
                            \/ \E u \in DOMAIN users : users[u].username = name
                      \/ /\ f = "email"
                         /\ mail # <<>>
                         /\ \/ Cardinality({k \in 1..Len(mail) : mail[k] = "@"}) # 1
                            \/ mail[1] = "@"
                            \/ mail[Len(mail)] = "@"
                      \/ /\ f = "password"
                         /\ \/ Len(word) < 8
                            \/ \A k \in 1..Len(word) : word[k] \in Digits
                            \/ word = SeedPassword}
          IN  IF failing # {}
              THEN /\ resp'.status = 400
                   /\ resp'.body = failing
                   /\ UNCHANGED store
              ELSE resp'.status = 201]_vars

\* C24 happens: a register with a blank username, a malformed e-mail and a
\* short password was answered 400 with the three fields, and no user was
\* stored.
C24_Witness ==
    /\ resp.op = "register"
    /\ resp.status = 400
    /\ resp.body = {"username", "email", "password"}
    /\ lastUserId = 2

\* C25: no request changes the username, is_staff, is_superuser or
\* is_active of a stored user.  A profile update or partial update that is
\* answered 200, by the user or by a staff member, changes at most the
\* e-mail, first name, last name and password of the user it names, and no
\* other user.
C25_UpdateFrame ==
    [][/\ \A u \in (DOMAIN users) \cap (DOMAIN users') :
              /\ users'[u].username = users[u].username
              /\ users'[u].is_staff = users[u].is_staff
              /\ users'[u].is_superuser = users[u].is_superuser
              /\ users'[u].is_active = users[u].is_active
       /\ (/\ resp'.op \in {"profile_update", "profile_partial_update"}
           /\ resp'.status = 200) =>
              /\ DOMAIN users' = DOMAIN users
              /\ \A u \in DOMAIN users : u # resp'.pk => users'[u] = users[u]
              /\ tasks' = tasks]_vars

\* C25 happens: a staff member's update of another user's profile, with a
\* payload that carries a username, is_superuser and is_active=false, was
\* answered 200; the e-mail of that user is the one sent, the username is
\* not, and the user is active.
C25_Witness ==
    /\ resp.op \in {"profile_update", "profile_partial_update"}
    /\ resp.status = 200
    /\ resp.user # resp.pk
    /\ users[resp.user].is_staff
    /\ Has(resp.data, "username")
    /\ Has(resp.data, "is_active")
    /\ users[resp.pk].email = resp.data.email
    /\ users[resp.pk].username # resp.data.username
    /\ users[resp.pk].is_active
    /\ ~users[resp.pk].is_superuser

C30_CreatedOnEqualsBounds ==
    (resp.op = "list" /\ resp.status = 200) =>
        LET listed == {resp.body[n].id : n \in 1..Len(resp.body)}
            On(d) == [created_on |-> d]
            Bounds(d) == [created_after |-> d, created_before |-> d]
        IN  /\ DOMAIN resp.data = {"created_on"} =>
                   listed = FilteredTasks(resp.user,
                                          Bounds(resp.data.created_on))
            /\ (/\ DOMAIN resp.data = {"created_after", "created_before"}
                /\ resp.data.created_after = resp.data.created_before) =>
                   listed = FilteredTasks(resp.user,
                                          On(resp.data.created_after))
            /\ \A d \in {FirstDay, SecondDay, ThirdDay} :
                   FilteredTasks(resp.user, On(d))
                       = FilteredTasks(resp.user, Bounds(d))

\* C30 happens: in a time zone off UTC, created_on=d listed the task the
\* principal created at the first instant of local day d and left out the
\* one created at the last instant of the day before, as the two date
\* bounds do.
C30_Witness ==
    /\ resp.op = "list"
    /\ resp.status = 200
    /\ DOMAIN resp.data = {"created_on"}
    /\ timeZone # 0
    /\ Len(resp.body) = 1
    /\ LET d == ParseDate(resp.data.created_on).day IN
       /\ tasks[resp.body[1].id].creation_time + timeZone = d * TicksPerDay
       /\ \E i \in TaskQueryset(resp.user) :
              tasks[i].creation_time + timeZone = d * TicksPerDay - 1
       /\ FilteredTasks(resp.user, [created_after |-> resp.data.created_on,
                                    created_before |-> resp.data.created_on])
              = {resp.body[1].id}

=============================================================================
